---- MODULE Spec2Model ----
(***************************************************************************)
(* winlock: a global hotkey that locks the workstation, with the optional  *)
(* toggling of the DisableLockWorkstation registry policy around each      *)
(* lock.  The model follows src/src/lib.rs (the library: Modifiers, Key,   *)
(* Hotkey::register, await_event, lock_workstation, set_lock_enabled) and  *)
(* src/src/main.rs (Options, main and the ctrlc termination handler).      *)
(*                                                                         *)
(* The Win32 calls are the environment: each call's result is chosen       *)
(* nondeterministically among the results the API can return.              *)
(***************************************************************************)
EXTENDS Integers, Sequences, FiniteSets, TLC

VARIABLES
    options,      \* the parsed Options record (main.rs:8-39), fixed for the run
    pre_flag,     \* DisableLockWorkstation before the run (history, never read by the program)
    flag,         \* DisableLockWorkstation registry DWORD: 0 = locking enabled, 1 = disabled
    pc,           \* position of the main thread in main()
    key_code,     \* the resolved Key of main.rs:120 (None before resolution)
    registered,   \* the hotkey the system holds for id HOTKEY_ID (None when not registered)
    hook,         \* ctrlc handler: "none" | "installed" | "restored" | "restore_failed"
                  \* (the last two: cleanup done on the handler's thread, exit pending)
    termination,  \* "running", or how the process ended: "returned" (main returned),
                  \* "config_error", "register_failed", "interrupted" (exit in the handler)
    exit_code,    \* its exit code, meaningful when exited
    msg,          \* await_event's last GetMessageW call: <<message_result, message.message>>
    trace         \* the main thread's calls in program order

vars == <<options, pre_flag, flag, pc, key_code, registered, hook, termination, exit_code, msg, trace>>

exited == termination # "running"

----------------------------------------------------------------------------
(* Bounds of the model *)

\* how many times the loop may call await_event
MaxReads == 2

----------------------------------------------------------------------------
(* Program constants *)

\* lib.rs:32-42, the bitflags of Modifiers
Alt == 1
Control == 2
NoRepeat == 16384
Shift == 4
Win == 8

\* lib.rs:89, the fixed hotkey identifier
HOTKEY_ID == 51843268

\* WindowsAndMessaging::{WM_HOTKEY, WM_QUIT}, used at lib.rs:118-127
WM_HOTKEY == 786
WM_QUIT == 18

\* main.rs:157, the grace sleep in milliseconds
GRACE_MS == 500

\* Option<T>
None == <<>>
Some(x) == <<x>>
IsSome(o) == Len(o) = 1
Unwrap(o) == o[1]

----------------------------------------------------------------------------
(* Input domains *)

\* virtual key codes given with -v
VirtualCodes == {65, 76}
\* characters given with -k ("a" is on every layout, "~" stands for one that may be on none)
KeyChars == {"a", "~"}
\* VkKeyScanW's 16-bit (i16) results: low byte the key code, high byte the
\* shift state; -1 when no key of the layout yields the character
ScanResults(c) == IF c = "a" THEN {65} ELSE {448, -1}
\* the modifier flag combinations of the runs explored: <<ctrl, shift, windows, alt>>
ModifierInputs == {<<TRUE, TRUE, FALSE, FALSE>>, <<FALSE, FALSE, TRUE, TRUE>>}
\* GetMessageW's return values: 0 (WM_QUIT retrieved), -1 (error), non-zero
GetMessageResults == {0, -1, 1}
\* the message read: the two the classifier names, and one that is neither (WM_TIMER, 275)
Messages == {WM_HOTKEY, WM_QUIT, 275}
\* what a GetMessageW call leaves: 0 with the WM_QUIT it retrieved, -1 with
\* the MSG untouched (Default::default(), message 0), or non-zero with a message
GetMessageOutcomes ==
    {<<r, m>> \in GetMessageResults \X (Messages \cup {0}) :
        \/ r = 0 /\ m = WM_QUIT
        \/ r = -1 /\ m = 0
        \/ r \notin {0, -1} /\ m \in Messages}

----------------------------------------------------------------------------
(* lib.rs *)

RECURSIVE BitOr(_, _)
\* u32 bitwise or, as `|=` of the bitflags type
BitOr(a, b) ==
    IF a = 0 THEN b
    ELSE IF b = 0 THEN a
    ELSE (IF (a % 2 = 1) \/ (b % 2 = 1) THEN 1 ELSE 0) + 2 * BitOr(a \div 2, b \div 2)

\* i16 `scan & 0x00FF`: the low byte of the two's complement value
LowByte(scan) == scan % 256

\* Key::from_current_layout_char, given VkKeyScanW's result
from_current_layout_char(scan) ==
    LET vkc == LowByte(scan)
    IN  IF vkc # -1 THEN Some(vkc) ELSE None

\* set_lock_enabled: the DWORD written to DisableLockWorkstation
PolicyData(enabled) == IF enabled THEN 0 ELSE 1

\* await_event: classification of GetMessageW's result and the message read
await_event(result, message) ==
    IF result = 0 THEN "Quit"
    ELSE IF result = -1 THEN "Err"
    ELSE IF message = WM_HOTKEY THEN "Hotkey"
    ELSE IF message = WM_QUIT THEN "Quit"
    ELSE "Quit"

----------------------------------------------------------------------------
(* main.rs: Options *)

\* virtual_key preferring the key code when both are given
virtual_key_PrefersCode(o, scan) ==
    IF IsSome(o.virtual_code)
        THEN [ok |-> TRUE, key |-> Some(Unwrap(o.virtual_code)), err |-> "none"]
    ELSE IF IsSome(o.key)
        THEN [ok |-> TRUE, key |-> from_current_layout_char(scan), err |-> "none"]
    ELSE [ok |-> TRUE, key |-> None, err |-> "none"]

\* Options::virtual_key; scan is VkKeyScanW's answer for options.key
virtual_key(o, scan) ==
    IF ~IsSome(o.virtual_code) /\ ~IsSome(o.key)
        THEN [ok |-> TRUE, key |-> None, err |-> "none"]
    ELSE IF ~IsSome(o.virtual_code) /\ IsSome(o.key)
        THEN IF IsSome(from_current_layout_char(scan))
                THEN [ok |-> TRUE, key |-> from_current_layout_char(scan), err |-> "none"]
                ELSE [ok |-> FALSE, key |-> None, err |-> "MappingFail"]
    ELSE IF IsSome(o.virtual_code) /\ ~IsSome(o.key)
        THEN [ok |-> TRUE, key |-> Some(Unwrap(o.virtual_code)), err |-> "none"]
    ELSE [ok |-> FALSE, key |-> None, err |-> "Conflict"]

\* ModifiersFrom uniting Shift's bit for the control flag too
ModifiersFrom_CtrlAsShift(o) ==
    LET r0 == NoRepeat
        r1 == IF o.ctrl THEN BitOr(r0, Shift) ELSE r0
        r2 == IF o.shift THEN BitOr(r1, Shift) ELSE r1
        r3 == IF o.windows THEN BitOr(r2, Win) ELSE r2
        r4 == IF o.alt THEN BitOr(r3, Alt) ELSE r3
    IN  r4

\* impl From<Options> for Modifiers
ModifiersFrom(o) ==
    LET r0 == NoRepeat
        r1 == IF o.ctrl THEN BitOr(r0, Control) ELSE r0
        r2 == IF o.shift THEN BitOr(r1, Shift) ELSE r1
        r3 == IF o.windows THEN BitOr(r2, Win) ELSE r2
        r4 == IF o.alt THEN BitOr(r3, Alt) ELSE r3
    IN  r4

\* the Options records with the modifier flags drawn from mods
OptionsOver(mods) ==
    { [disable_windows |-> d, restore_windows |-> r, virtual_code |-> v, key |-> k,
       ctrl |-> m[1], shift |-> m[2], windows |-> m[3], alt |-> m[4]] :
        d \in BOOLEAN, r \in BOOLEAN,
        v \in {None} \cup {Some(c) : c \in VirtualCodes},
        k \in {None} \cup {Some(c) : c \in KeyChars},
        m \in mods }

OptionsSet == OptionsOver(ModifierInputs)

----------------------------------------------------------------------------
(* The trace of the main thread *)

\* one call of the main thread: op names the call, tag its symbolic argument
\* or result, val its numeric argument, ok whether it succeeded
Call(op, tag, val, ok) == [op |-> op, tag |-> tag, val |-> val, ok |-> ok]

\* the number of calls of the trace with operation op
RECURSIVE CountOp(_, _)
CountOp(s, op) ==
    IF s = <<>> THEN 0
    ELSE (IF s[1].op = op THEN 1 ELSE 0) + CountOp(Tail(s), op)

Reads == CountOp(trace, "read")

\* a write that flips the value instead of setting it
Written_Toggles(old, data, ok) == IF ok /\ data = 0 THEN 1 - old ELSE IF ok THEN data ELSE old

\* the registry value after a RegSetKeyValueW call that succeeds or fails
Written(old, data, ok) == IF ok THEN data ELSE old

\* disable_lock / enable_lock on the main thread: the write, its error only logged
MainWrite(enabled, ok) ==
    /\ flag' = Written(flag, PolicyData(enabled), ok)
    /\ trace' = Append(trace, Call("write", "", PolicyData(enabled), ok))

----------------------------------------------------------------------------
(* main.rs: main *)

Init ==
    /\ options \in OptionsSet
    /\ pre_flag \in {0, 1}
    /\ flag = pre_flag
    /\ pc = "start"
    /\ key_code = None
    /\ registered = None
    /\ hook = "none"
    /\ termination = "running"
    /\ exit_code = 0
    /\ msg = <<1, 0>>
    /\ trace = <<>>

\* every exit with code 0
ExitCode_AlwaysZero(how) == 0

\* main.rs:129, 134, 165 and the return of main: the exit code of each way to end
ExitCode(how) == IF how \in {"config_error", "register_failed"} THEN 1 ELSE 0

\* cleanup that never writes
CleanupWrites_Never(o) == FALSE

\* Options::cleanup: whether it writes
CleanupWrites(o) == o.restore_windows

\* AfterEvent with Quit looping back instead of breaking
AfterEvent_QuitContinues(ev) ==
    IF ev = "Hotkey" THEN "enable" ELSE "await"

\* AfterEvent going straight to the lock action on a Hotkey event
AfterEvent_SkipsEnable(ev) ==
    IF ev = "Hotkey" THEN "lock"
    ELSE IF ev = "Quit" THEN "final"
    ELSE "await"

\* AfterEvent leaving the loop on a failed read
AfterEvent_ErrBreaks(ev) ==
    IF ev = "Hotkey" THEN "enable"
    ELSE IF ev = "Other" THEN "await"
    ELSE "final"

\* AfterEvent leaving the loop on an Other event
AfterEvent_OtherBreaks(ev) ==
    IF ev = "Hotkey" THEN "enable"
    ELSE IF ev = "Err" THEN "await"
    ELSE "final"

\* main.rs:146-150: where the match on the event leads
AfterEvent(ev) ==
    IF ev = "Hotkey" THEN "enable"
    ELSE IF ev = "Other" THEN "await"
    ELSE IF ev = "Quit" THEN "final"
    ELSE "await"

\* AfterLock re-disabling at once, without the grace sleep
AfterLock_NoSleep(o) == IF o.disable_windows THEN "redisable" ELSE "await"

\* AfterLock re-disabling whatever the options say
AfterLock_Always(o) == "sleep"

\* AfterLock never re-disabling
AfterLock_Never(o) == "await"

\* main.rs:155: whether the reaction goes on to the grace sleep
AfterLock(o) == IF o.disable_windows THEN "sleep" ELSE "await"

\* DisableAtStart without the write
DisableAtStart_Skipped ==
    /\ ~exited /\ pc = "start"
    /\ pc' = "resolve"
    /\ UNCHANGED <<msg, options, pre_flag, flag, key_code, registered, hook, termination, exit_code, trace>>

\* main.rs:115-117: if options.disable_windows { disable_lock(); }
DisableAtStart ==
    /\ ~exited /\ pc = "start"
    /\ IF options.disable_windows
          THEN \E ok \in BOOLEAN : MainWrite(FALSE, ok)
          ELSE UNCHANGED <<flag, trace>>
    /\ pc' = "resolve"
    /\ UNCHANGED <<msg, options, pre_flag, key_code, registered, hook, termination, exit_code>>

\* main.rs:119-120, 162-166: match options.virtual_key()
ResolveKey ==
    /\ ~exited /\ pc = "resolve"
    /\ \E scan \in (IF ~IsSome(options.virtual_code) /\ IsSome(options.key)
                       THEN ScanResults(Unwrap(options.key)) ELSE {0}) :
          LET r == virtual_key(options, scan)
          IN  /\ trace' = Append(trace, Call("virtual_key", r.err, scan, r.ok))
              /\ IF r.ok /\ IsSome(r.key)
                    THEN /\ key_code' = r.key
                         /\ pc' = "register"
                         /\ UNCHANGED <<termination, exit_code>>
                 ELSE IF r.ok
                    THEN /\ pc' = "final"
                         /\ UNCHANGED <<key_code, termination, exit_code>>
                 ELSE /\ termination' = "config_error"
                      /\ exit_code' = ExitCode("config_error")
                      /\ pc' = "exit"
                      /\ UNCHANGED key_code
    /\ UNCHANGED <<msg, options, pre_flag, flag, registered, hook>>

\* main.rs:121-130 with Hotkey::register (lib.rs:85-100); on failure
\* options.cleanup() and std::process::exit(1)
Register ==
    /\ ~exited /\ pc = "register"
    /\ \E success \in BOOLEAN :
          LET call == Call("register", "", Unwrap(key_code), success)
          IN  IF success
                 THEN /\ registered' = Some([id |-> HOTKEY_ID,
                                             modifiers |-> ModifiersFrom(options),
                                             key_code |-> Unwrap(key_code)])
                      /\ trace' = Append(trace, call)
                      /\ pc' = "install_hook"
                      /\ UNCHANGED <<flag, termination, exit_code>>
                 ELSE /\ IF CleanupWrites(options)
                            THEN \E ok \in BOOLEAN :
                                    /\ flag' = Written(flag, PolicyData(TRUE), ok)
                                    /\ trace' = trace \o <<call, Call("write", "", PolicyData(TRUE), ok)>>
                            ELSE /\ trace' = Append(trace, call)
                                 /\ UNCHANGED flag
                      /\ termination' = "register_failed"
                      /\ exit_code' = ExitCode("register_failed")
                      /\ pc' = "exit"
                      /\ UNCHANGED registered
    /\ UNCHANGED <<msg, options, pre_flag, key_code, hook>>

\* main.rs:131-137: ctrlc::set_handler when restore_windows; a failure to
\* install is only warned about
InstallHook ==
    /\ ~exited /\ pc = "install_hook"
    /\ IF options.restore_windows
          THEN \E ok \in BOOLEAN :
                  /\ hook' = IF ok THEN "installed" ELSE "none"
                  /\ trace' = Append(trace, Call("set_handler", "", 0, ok))
          ELSE UNCHANGED <<hook, trace>>
    /\ pc' = "await"
    /\ UNCHANGED <<msg, options, pre_flag, flag, key_code, registered, termination, exit_code>>

\* main.rs:139-150: await_event and the match on its result
AwaitEvent ==
    /\ ~exited /\ pc = "await"
    /\ Reads < MaxReads
    /\ \E m \in GetMessageOutcomes :
          LET ev == await_event(m[1], m[2])
          IN  /\ msg' = m
              /\ trace' = Append(trace, Call("read", ev, 0, ev # "Err"))
              /\ pc' = AfterEvent(ev)
    /\ UNCHANGED <<options, pre_flag, flag, key_code, registered, hook, termination, exit_code>>

\* EnableLock giving up the reaction when the write fails
EnableLock_FailureSkips ==
    /\ ~exited /\ pc = "enable"
    /\ \E ok \in BOOLEAN :
          /\ MainWrite(TRUE, ok)
          /\ pc' = IF ok THEN "lock" ELSE "await"
    /\ UNCHANGED <<msg, options, pre_flag, key_code, registered, hook, termination, exit_code>>

\* main.rs:151: enable_lock()
EnableLock ==
    /\ ~exited /\ pc = "enable"
    /\ \E ok \in BOOLEAN : MainWrite(TRUE, ok)
    /\ pc' = "lock"
    /\ UNCHANGED <<msg, options, pre_flag, key_code, registered, hook, termination, exit_code>>

\* main.rs:152-155: lock_workstation(), its error only logged
LockWorkstation ==
    /\ ~exited /\ pc = "lock"
    /\ \E ok \in BOOLEAN : trace' = Append(trace, Call("lock", "", 0, ok))
    /\ pc' = AfterLock(options)
    /\ UNCHANGED <<msg, options, pre_flag, flag, key_code, registered, hook, termination, exit_code>>

\* main.rs:157: std::thread::sleep(Duration::from_millis(500))
GraceSleep ==
    /\ ~exited /\ pc = "sleep"
    /\ trace' = Append(trace, Call("sleep", "", GRACE_MS, TRUE))
    /\ pc' = "redisable"
    /\ UNCHANGED <<msg, options, pre_flag, flag, key_code, registered, hook, termination, exit_code>>

\* main.rs:158: disable_lock()
ReDisable ==
    /\ ~exited /\ pc = "redisable"
    /\ \E ok \in BOOLEAN : MainWrite(FALSE, ok)
    /\ pc' = "await"
    /\ UNCHANGED <<msg, options, pre_flag, key_code, registered, hook, termination, exit_code>>

\* FinalRestore without the write
FinalRestore_NoWrite ==
    /\ ~exited /\ pc = "final"
    /\ termination' = "returned"
    /\ exit_code' = ExitCode("returned")
    /\ pc' = "exit"
    /\ UNCHANGED <<msg, options, pre_flag, flag, key_code, registered, hook, trace>>

\* main.rs:169-172: the restore after the match, then main returns
FinalRestore ==
    /\ ~exited /\ pc = "final"
    /\ IF options.restore_windows
          THEN \E ok \in BOOLEAN : MainWrite(TRUE, ok)
          ELSE UNCHANGED <<flag, trace>>
    /\ termination' = "returned"
    /\ exit_code' = ExitCode("returned")
    /\ pc' = "exit"
    /\ UNCHANGED <<msg, options, pre_flag, key_code, registered, hook>>

\* main.rs:132-133: an interrupt runs the handler on ctrlc's thread:
\* options.cleanup()
HookCleanup ==
    /\ ~exited /\ hook = "installed"
    /\ IF CleanupWrites(options)
          THEN \E ok \in BOOLEAN :
                  /\ flag' = Written(flag, PolicyData(TRUE), ok)
                  /\ hook' = IF ok THEN "restored" ELSE "restore_failed"
          ELSE /\ hook' = "restored"
               /\ UNCHANGED flag
    /\ UNCHANGED <<msg, options, pre_flag, pc, key_code, registered, termination, exit_code, trace>>

\* main.rs:134: std::process::exit(0) in the handler
HookExit ==
    /\ ~exited /\ hook \in {"restored", "restore_failed"}
    /\ termination' = "interrupted"
    /\ exit_code' = ExitCode("interrupted")
    /\ UNCHANGED <<msg, options, pre_flag, flag, pc, key_code, registered, hook, trace>>

Next ==
    \/ DisableAtStart
    \/ ResolveKey
    \/ Register
    \/ InstallHook
    \/ AwaitEvent
    \/ EnableLock
    \/ LockWorkstation
    \/ GraceSleep
    \/ ReDisable
    \/ FinalRestore
    \/ HookCleanup
    \/ HookExit

Spec == Init /\ [][Next]_vars

----------------------------------------------------------------------------
(* The start of main alone, for every combination of the modifier flags *)

\* <<ctrl, shift, windows, alt>>: all sixteen
AllModifierInputs == {<<c, h, w, a>> : c \in BOOLEAN, h \in BOOLEAN, w \in BOOLEAN, a \in BOOLEAN}

InitStartup ==
    /\ options \in OptionsOver(AllModifierInputs)
    /\ pre_flag \in {0, 1}
    /\ flag = pre_flag
    /\ pc = "start"
    /\ key_code = None
    /\ registered = None
    /\ hook = "none"
    /\ termination = "running"
    /\ exit_code = 0
    /\ msg = <<1, 0>>
    /\ trace = <<>>

\* main.rs:115-137: main up to the loop
NextStartup ==
    \/ DisableAtStart
    \/ ResolveKey
    \/ Register
    \/ InstallHook

SpecStartup == InitStartup /\ [][NextStartup]_vars

----------------------------------------------------------------------------
(* main with the loop handed every value of io::Result<HotkeyEvent> *)

\* lib.rs:105-112: the variants of HotkeyEvent
HotkeyEvents == {"Hotkey", "Other", "Quit"}

\* main.rs:139-150: the match on what await_event() returned, for each
\* value of its type (an event, or an error)
LoopEvent ==
    /\ ~exited /\ pc = "await"
    /\ Reads < MaxReads
    /\ \E ev \in HotkeyEvents \cup {"Err"} :
          /\ trace' = Append(trace, Call("read", ev, 0, ev # "Err"))
          /\ pc' = AfterEvent(ev)
    /\ UNCHANGED <<msg, options, pre_flag, flag, key_code, registered, hook, termination, exit_code>>

NextLoop ==
    \/ DisableAtStart
    \/ ResolveKey
    \/ Register
    \/ InstallHook
    \/ LoopEvent
    \/ EnableLock
    \/ LockWorkstation
    \/ GraceSleep
    \/ ReDisable
    \/ FinalRestore
    \/ HookCleanup
    \/ HookExit

SpecLoop == Init /\ [][NextLoop]_vars

----------------------------------------------------------------------------
(* Reading the trace *)

\* the positions of the calls with operation op
At(op) == {i \in 1..Len(trace) : trace[i].op = op}

IsWrite(c, data) == c.op = "write" /\ c.val = data
IsRead(c, ev) == c.op = "read" /\ c.tag = ev

\* the positions of the reads that returned ev
ReadsOf(ev) == {i \in At("read") : trace[i].tag = ev}

\* the data of the policy writes of the main thread, in order
RECURSIVE WritesOf(_)
WritesOf(s) ==
    IF s = <<>> THEN <<>>
    ELSE (IF s[1].op = "write" THEN <<s[1].val>> ELSE <<>>) \o WritesOf(Tail(s))

\* the results of await_event, in order
RECURSIVE EventsOf(_)
EventsOf(s) ==
    IF s = <<>> THEN <<>>
    ELSE (IF s[1].op = "read" THEN <<s[1].tag>> ELSE <<>>) \o EventsOf(Tail(s))

\* no policy write of the run failed, on either thread
NoWriteFailed ==
    /\ \A i \in At("write") : trace[i].ok
    /\ hook # "restore_failed"

\* the shape of the configured key
OnlyCode == IsSome(options.virtual_code) /\ ~IsSome(options.key)
OnlyChar == ~IsSome(options.virtual_code) /\ IsSome(options.key)
BothKeys == IsSome(options.virtual_code) /\ IsSome(options.key)
NoKey == ~IsSome(options.virtual_code) /\ ~IsSome(options.key)

----------------------------------------------------------------------------
(* C1 *)

----------------------------------------------------------------------------
(* C2 *)

\* C2: with restore-on-exit configured, the flag after termination through a
\* Quit event, a registration failure or the termination hook equals its
\* pre-run value.  Stated for the runs most favourable to the claim: the
\* pre-run value is 'enabled' (the value the restore writes) and no policy
\* write fails.
C2_FinalEqualsPreRun ==
    ( /\ options.restore_windows
      /\ pre_flag = PolicyData(TRUE)
      /\ NoWriteFailed
      /\ \/ termination = "returned" /\ ReadsOf("Quit") # {}
         \/ termination = "register_failed"
         \/ termination = "interrupted" )
    => flag = pre_flag

----------------------------------------------------------------------------
(* C3 *)

\* C3: every lock action of the controller is immediately preceded by its
\* policy write of 'enabled', itself immediately preceded by the read of the
\* Hotkey event; and what follows a Hotkey read is that write and then the
\* lock action, with disable-native-lock configured or not.
C3_EnableWriteBeforeEveryLock ==
    /\ \A i \in At("lock") :
          /\ i >= 3
          /\ IsWrite(trace[i - 1], PolicyData(TRUE))
          /\ IsRead(trace[i - 2], "Hotkey")
    /\ \A i \in ReadsOf("Hotkey") :
          /\ i + 1 <= Len(trace) => IsWrite(trace[i + 1], PolicyData(TRUE))
          /\ i + 2 <= Len(trace) => trace[i + 2].op = "lock"

\* a run with disable-native-lock configured that has locked twice
C3_Witness ==
    /\ options.disable_windows
    /\ Cardinality(At("lock")) = 2
    /\ \E i \in At("lock") : IsWrite(trace[i - 1], PolicyData(TRUE)) /\ ~trace[i - 1].ok

----------------------------------------------------------------------------
(* C4 *)

\* C4: with disable-native-lock configured the first policy write of the run
\* is 'disabled' and precedes the registration attempt; without it no policy
\* write precedes the registration attempt.
C4_DisableWriteBeforeRegistration ==
    /\ \A i \in At("register") :
          IF options.disable_windows
             THEN \E j \in 1..(i - 1) :
                     /\ IsWrite(trace[j], PolicyData(FALSE))
                     /\ \A k \in 1..(j - 1) : trace[k].op # "write"
             ELSE \A j \in 1..(i - 1) : trace[j].op # "write"
    /\ (options.disable_windows /\ At("write") # {})
          => WritesOf(trace)[1] = PolicyData(FALSE)
    /\ (options.disable_windows /\ pc # "start")
          => trace # <<>> /\ IsWrite(trace[1], PolicyData(FALSE))

\* disable-native-lock configured, and the registration attempted
C4_Witness ==
    /\ options.disable_windows
    /\ trace # <<>> /\ IsWrite(trace[1], PolicyData(FALSE))
    /\ \E i \in At("register") : i > 1 /\ trace[i].ok

----------------------------------------------------------------------------
(* C5 *)

\* C5: a 'disabled' write after the registration happens only with
\* disable-native-lock configured, right after a sleep of GRACE_MS that
\* itself follows a lock action; and with disable-native-lock configured
\* every lock action is followed by one such sleep and one 'disabled' write
\* before the next event is read.
C5_ReDisableOnlyAfterGrace ==
    /\ \A i \in At("write") :
          (trace[i].val = PolicyData(FALSE) /\ \E r \in At("register") : r < i)
          => /\ options.disable_windows
             /\ i >= 3
             /\ trace[i - 1] = Call("sleep", "", 500, TRUE)
             /\ trace[i - 2].op = "lock"
    /\ options.disable_windows =>
          /\ \A i \in At("lock") :
                /\ i + 1 <= Len(trace) => trace[i + 1] = Call("sleep", "", 500, TRUE)
                /\ i + 2 <= Len(trace) => IsWrite(trace[i + 2], PolicyData(FALSE))
                /\ i + 3 <= Len(trace) => trace[i + 3].op = "read"
          /\ pc = "await" =>
                /\ Cardinality(At("sleep")) = Cardinality(At("lock"))
                /\ Len(WritesOf(trace)) = 1 + 2 * Cardinality(At("lock"))
    /\ ~options.disable_windows => At("sleep") = {}

\* a lock action, the grace sleep, the re-disable write, and the next read
C5_Witness ==
    /\ options.disable_windows
    /\ \E i \in At("lock") :
          /\ i + 3 <= Len(trace)
          /\ trace[i + 1].op = "sleep"
          /\ IsWrite(trace[i + 2], PolicyData(FALSE))
          /\ trace[i + 3].op = "read"

----------------------------------------------------------------------------
(* C6 *)

\* C6 as claimed: configured with an explicit key code only, without
\* disable-native-lock and without restore-on-exit, the run attempts the
\* registration at most once and issues no policy write at all.
C6_ZeroPolicyWrites ==
    (OnlyCode /\ ~options.disable_windows /\ ~options.restore_windows)
    => /\ Cardinality(At("register")) <= 1
       /\ At("write") = {}

\* C6 as amended: in such a run the registration is attempted exactly once,
\* no 'disabled' write is ever issued, and the policy writes are exactly one
\* 'enabled' write per Hotkey event, issued right after the event is read;
\* so there is no policy write if and only if no Hotkey event was read.
C6_OneEnableWritePerHotkey ==
    (OnlyCode /\ ~options.disable_windows /\ ~options.restore_windows)
    => /\ Cardinality(At("register")) <= 1
       /\ pc \notin {"start", "resolve", "register"} => Cardinality(At("register")) = 1
       /\ hook = "none"
       /\ \A i \in At("write") :
             /\ trace[i].val = PolicyData(TRUE)
             /\ i > 1 /\ IsRead(trace[i - 1], "Hotkey")
       /\ pc # "enable" => Cardinality(At("write")) = Cardinality(ReadsOf("Hotkey"))
       /\ pc = "enable" => Cardinality(At("write")) + 1 = Cardinality(ReadsOf("Hotkey"))

\* such a run, ended on Quit after one Hotkey event: one write, of 'enabled'
C6_Witness ==
    /\ OnlyCode /\ ~options.disable_windows /\ ~options.restore_windows
    /\ termination = "returned"
    /\ EventsOf(trace) = <<"Hotkey", "Quit">>
    /\ WritesOf(trace) = <<0>>
    /\ Cardinality(At("register")) = 1

----------------------------------------------------------------------------
(* C7 *)

\* C7: given only a character for which VkKeyScanW answers -1, the key
\* resolution fails with the mapping error, no registration is attempted and
\* the loop does not start.
C7_UnmappedCharFailsBeforeRegistration ==
    \A i \in At("virtual_key") :
       (OnlyChar /\ trace[i].val = -1)
       => /\ trace[i].tag = "MappingFail"
          /\ ~trace[i].ok
          /\ key_code = None
          /\ At("register") = {}
          /\ At("read") = {}

----------------------------------------------------------------------------
(* C8 *)

\* C8: given both a key code and a character, the resolution fails with the
\* conflict error and yields no key, the run ends there as a configuration
\* error, and neither a registration attempt nor a read nor a lock happens.
C8_BothKeysConflict ==
    BothKeys
    => /\ key_code = None
       /\ registered = None
       /\ At("register") = {} /\ At("read") = {} /\ At("lock") = {}
       /\ \A i \in At("virtual_key") : trace[i].tag = "Conflict" /\ ~trace[i].ok
       /\ pc \in {"start", "resolve", "exit"}
       /\ pc = "exit" => termination = "config_error" /\ At("virtual_key") # {}

\* both given, and the run has ended on the conflict
C8_Witness ==
    /\ BothKeys
    /\ termination = "config_error"
    /\ \E i \in At("virtual_key") : trace[i].tag = "Conflict"

----------------------------------------------------------------------------
(* C9 *)

\* C9: given neither a key code nor a character, the run attempts no
\* registration, reads no event and locks nothing; it writes 'disabled'
\* first if disable-native-lock is configured, writes 'enabled' last if
\* restore-on-exit is configured, issues no other write, and ends normally.
C9_NoKeyHonorsFlags ==
    NoKey
    => /\ At("register") = {} /\ At("read") = {} /\ At("lock") = {}
       /\ registered = None /\ hook = "none"
       /\ pc \in {"start", "resolve", "final", "exit"}
       /\ (options.disable_windows /\ pc # "start") => IsWrite(trace[1], 1)
       /\ exited =>
             /\ termination = "returned" /\ exit_code = 0
             /\ options.restore_windows => IsWrite(trace[Len(trace)], 0)
             /\ WritesOf(trace) =
                   (IF options.disable_windows THEN <<1>> ELSE <<>>)
                   \o (IF options.restore_windows THEN <<0>> ELSE <<>>)

\* neither given, both flags configured, and the run has ended
C9_Witness ==
    /\ NoKey /\ options.disable_windows /\ options.restore_windows
    /\ termination = "returned"
    /\ WritesOf(trace) = <<1, 0>>
    /\ flag = 0

----------------------------------------------------------------------------
(* C10 *)

\* C10: a failed registration is followed by the cleanup (one write of
\* 'enabled' exactly when restore-on-exit is configured) and by the end of
\* the process with a non-zero exit code; the termination hook is not
\* installed, no event is read and nothing is locked.
C10_RegisterFailureCleanup ==
    /\ \A i \in At("register") :
          ~trace[i].ok
          => /\ termination = "register_failed"
             /\ exit_code # 0
             /\ IF options.restore_windows
                   THEN Len(trace) = i + 1 /\ IsWrite(trace[i + 1], 0)
                   ELSE Len(trace) = i
             /\ hook = "none" /\ registered = None
             /\ At("set_handler") = {} /\ At("read") = {} /\ At("lock") = {}
    /\ termination = "register_failed" => \E i \in At("register") : ~trace[i].ok

\* a failed registration after the disable write, restored by the cleanup
C10_Witness ==
    /\ termination = "register_failed"
    /\ options.disable_windows /\ options.restore_windows
    /\ WritesOf(trace) = <<1, 0>>
    /\ NoWriteFailed /\ flag = 0

----------------------------------------------------------------------------
(* C11 *)

\* the classification the claim gives for a GetMessageW outcome
ClaimedEvent(result, message) ==
    IF result = 0 THEN "Quit"
    ELSE IF result = -1 THEN "Err"
    ELSE IF message = 786 THEN "Hotkey"
    ELSE IF message = 18 THEN "Quit"
    ELSE "Other"

\* C11: the event await_event returns is Hotkey for a hotkey message, Quit
\* for a termination message and for the result 0, an error for the result
\* -1, and Other for any other message, which is never classified as Quit.
C11_ClassifiesAsClaimed ==
    (trace # <<>> /\ trace[Len(trace)].op = "read")
    => trace[Len(trace)].tag = ClaimedEvent(msg[1], msg[2])

----------------------------------------------------------------------------
(* C12 *)

\* C12: a failed read never ends the loop and causes nothing: what follows
\* it in the controller's trace is the next read, and while it is the last
\* call the controller is back at the read (the process running or ended by
\* the termination hook only); main returns from a started loop only after
\* a Quit event, and at the read every Hotkey event read so far, before or
\* after failed reads, has had exactly its lock action.
C12_ReadErrorKeepsListening ==
    /\ \A i \in ReadsOf("Err") :
          /\ ~trace[i].ok
          /\ i < Len(trace) => trace[i + 1].op = "read"
          /\ i = Len(trace) =>
                /\ pc = "await"
                /\ termination \in {"running", "interrupted"}
    /\ (termination = "returned" /\ At("read") # {}) => ReadsOf("Quit") # {}
    /\ pc = "await" => Cardinality(At("lock")) = Cardinality(ReadsOf("Hotkey"))

\* a failed read, then a Hotkey event that is reacted to in full
C12_Witness ==
    /\ EventsOf(trace) = <<"Err", "Hotkey">>
    /\ Cardinality(At("lock")) = 1
    /\ pc = "await"
    /\ termination = "running"

----------------------------------------------------------------------------
(* C13 *)

\* C13: a failed policy write or a failed lock action neither ends the
\* controller nor skips a step of the reaction: after a failed enable write
\* comes the lock action, after a failed lock action come (with
\* disable-native-lock configured) the grace sleep and the re-disable write,
\* and after the reaction, failed or not, the controller is back at the read.
C13_FailuresDoNotSkipSteps ==
    \A i \in 1..Len(trace) :
       (~trace[i].ok /\ \E r \in ReadsOf("Hotkey") : r < i)
       => /\ (IsWrite(trace[i], 0) /\ IsRead(trace[i - 1], "Hotkey")) =>
                IF i = Len(trace)
                   THEN pc = "lock" /\ termination \in {"running", "interrupted"}
                   ELSE trace[i + 1].op = "lock"
          /\ trace[i].op = "lock" =>
                IF options.disable_windows
                   THEN /\ i = Len(trace) =>
                              pc = "sleep" /\ termination \in {"running", "interrupted"}
                        /\ i + 1 <= Len(trace) => trace[i + 1].op = "sleep"
                        /\ i + 1 = Len(trace) => pc = "redisable"
                        /\ i + 2 <= Len(trace) => IsWrite(trace[i + 2], 1)
                        /\ i + 2 = Len(trace) => pc = "await"
                        /\ i + 3 <= Len(trace) => trace[i + 3].op = "read"
                   ELSE /\ i = Len(trace) =>
                              pc = "await" /\ termination \in {"running", "interrupted"}
                        /\ i < Len(trace) => trace[i + 1].op = "read"
          /\ (IsWrite(trace[i], 1) /\ trace[i - 1].op = "sleep") =>
                IF i = Len(trace)
                   THEN pc = "await" /\ termination \in {"running", "interrupted"}
                   ELSE trace[i + 1].op = "read"

\* a reaction in which the enable write, the lock action and the re-disable
\* write all failed, and the next event read after it
C13_Witness ==
    /\ options.disable_windows
    /\ \E i \in At("lock") :
          /\ ~trace[i - 1].ok /\ IsWrite(trace[i - 1], 0)
          /\ ~trace[i].ok
          /\ i + 3 <= Len(trace)
          /\ trace[i + 1].op = "sleep"
          /\ IsWrite(trace[i + 2], 1) /\ ~trace[i + 2].ok
          /\ trace[i + 3].op = "read"

----------------------------------------------------------------------------
(* C14 *)

\* the bit of a flag that is set, by its documented value
FlagBit(set, bit) == IF set THEN bit ELSE 0

\* C14: the Modifiers handed to the registration are the union of the bits
\* of the flags given (Control 2, Shift 4, Win 8, Alt 1) and of NoRepeat
\* (0x4000), whatever the order in which the bits are united.
C14_ModifiersAreUnionPlusNoRepeat ==
    IsSome(registered) =>
       LET m == Unwrap(registered).modifiers
           c == FlagBit(options.ctrl, 2)
           h == FlagBit(options.shift, 4)
           w == FlagBit(options.windows, 8)
           a == FlagBit(options.alt, 1)
       IN  /\ m = 16384 + c + h + w + a
           /\ m = BitOr(a, BitOr(w, BitOr(h, BitOr(c, 16384))))
           /\ m = BitOr(BitOr(BitOr(BitOr(c, a), h), 16384), w)

\* ctrl and alt given, shift and windows not: Control | Alt | NoRepeat
C14_Witness ==
    /\ IsSome(registered)
    /\ options.ctrl /\ options.alt /\ ~options.shift /\ ~options.windows
    /\ Unwrap(registered).modifiers = 16387

----------------------------------------------------------------------------
(* C15 *)

\* C15: the exit code is 0 when main returns (the loop ended on a Quit event,
\* or no hotkey was configured) and is not 0 when the registration failed or
\* the key resolution failed; no run that ended on either failure has exit
\* code 0.
C15_ExitCodes ==
    /\ termination = "returned" =>
          /\ exit_code = 0
          /\ NoKey \/ ReadsOf("Quit") # {}
    /\ termination = "register_failed" => exit_code # 0
    /\ termination = "config_error" => exit_code # 0
    /\ (\E i \in At("register") : ~trace[i].ok) => exited /\ exit_code # 0
    /\ (\E i \in At("virtual_key") : ~trace[i].ok) => exited /\ exit_code # 0

\* a run ended by the conflict of two key forms, with a non-zero exit code
C15_Witness ==
    /\ termination = "config_error"
    /\ \E i \in At("virtual_key") : trace[i].tag = "Conflict"
    /\ exit_code = 1

----------------------------------------------------------------------------
(* C16 *)

\* C16: with restore-on-exit configured and no write failing, whatever the
\* interleaving of the termination hook (restore write, then exit) with the
\* main loop, the flag at the exit made by the hook is 'enabled': no write
\* of the main loop after the hook's restore write has another value.
C16_FlagEnabledAtHookExit ==
    (options.restore_windows /\ termination = "interrupted" /\ NoWriteFailed)
    => flag = 0

----------------------------------------------------------------------------
(* C17 *)

\* C17: with restore-on-exit configured, every way the process ends is
\* preceded by the restore write of 'enabled': it is the controller's last
\* call, or the termination hook has issued it.
C17_RestoreOnEveryExit ==
    (options.restore_windows /\ exited)
    => \/ trace # <<>> /\ IsWrite(trace[Len(trace)], 0)
       \/ hook \in {"restored", "restore_failed"}

----------------------------------------------------------------------------
(* C18 *)

\* C18: the step in which the loop handles an Other event changes nothing
\* but the record of the read itself: no lock action, no policy write, no
\* sleep, the process still running, and the controller back at the read.
C18_OtherChangesNothing ==
    [][ (Len(trace') > Len(trace) /\ IsRead(trace'[Len(trace')], "Other"))
        => /\ trace' = Append(trace, Call("read", "Other", 0, TRUE))
           /\ pc = "await" /\ pc' = "await"
           /\ termination' = "running"
           /\ <<flag, hook, registered, key_code, options, exit_code>>'
                 = <<flag, hook, registered, key_code, options, exit_code>> ]_vars

\* an Other event read after a Hotkey event was reacted to, the loop still running
C18_Witness ==
    /\ EventsOf(trace) = <<"Hotkey", "Other">>
    /\ IsRead(trace[Len(trace)], "Other")
    /\ pc = "await"
    /\ termination = "running"

----------------------------------------------------------------------------
(* C19 *)

\* the data of the last policy write of the trace that succeeded, or none
\* when there is no such write
RECURSIVE LastOkWrite(_, _)
LastOkWrite(s, none) ==
    IF s = <<>> THEN none
    ELSE IF s[Len(s)].op = "write" /\ s[Len(s)].ok THEN s[Len(s)].val
    ELSE LastOkWrite(SubSeq(s, 1, Len(s) - 1), none)

\* C19: the flag is the value of the last policy write that succeeded (0
\* from an 'enabled' write, 1 from a 'disabled' one), whatever the flag was
\* before and however many writes of that value came before it, and is the
\* pre-run value while no write has succeeded; once the termination hook has
\* written 'enabled' it is that 0 or the value of a later write of the loop.
C19_FlagIsLastWrittenValue ==
    /\ flag \in {0, 1}
    /\ IF hook = "restored"
          THEN flag \in {0, LastOkWrite(trace, pre_flag)}
          ELSE flag = LastOkWrite(trace, pre_flag)
    /\ \A i \in At("write") :
          /\ (i > 1 /\ IsRead(trace[i - 1], "Hotkey")) => trace[i].val = 0
          /\ (i > 1 /\ trace[i - 1].op = "sleep") => trace[i].val = 1
          /\ (i = 1 /\ options.disable_windows) => trace[i].val = 1

\* 'enabled' written twice running (the reaction's write, then the restore)
\* over a pre-run 'disabled': the flag is 0 as after the first of them
C19_Witness ==
    /\ pre_flag = 1
    /\ WritesOf(trace) = <<0, 0>>
    /\ \A i \in At("write") : trace[i].ok
    /\ flag = 0

----------------------------------------------------------------------------
(* C20 *)

LoopPositions == {"await", "enable", "lock", "sleep", "redisable"}

\* C20 as claimed: with disable-native-lock configured and no write failing,
\* in the loop the flag is 'disabled' whenever the controller is at the read,
\* and is 'enabled' only between the enable write and the re-disable write
\* of a reaction.
C20_DisabledWhileListening ==
    (options.disable_windows /\ NoWriteFailed /\ ~exited /\ pc \in LoopPositions)
    => /\ pc = "await" => flag = 1
       /\ flag = 0 => pc \in {"lock", "sleep", "redisable"}

\* C20 as amended: the same, as long as the termination hook has not run
\* its restore write.
C20_DisabledWhileListeningBeforeHook ==
    (options.disable_windows /\ NoWriteFailed /\ ~exited /\ pc \in LoopPositions
        /\ hook \in {"none", "installed"})
    => /\ pc = "await" => flag = 1
       /\ flag = 0 => pc \in {"lock", "sleep", "redisable"}

\* back at the read after a reaction, the hook installed and not run: disabled
C20_Witness ==
    /\ options.disable_windows /\ NoWriteFailed /\ ~exited
    /\ hook = "installed"
    /\ pc = "await"
    /\ Cardinality(At("lock")) = 1
    /\ pre_flag = 0 /\ flag = 1

====
